---- MODULE Spec2Model ----
(***************************************************************************)
(* The MRP label PDF merger (src/app.py): a Streamlit script that loads a  *)
(* spreadsheet, and on request walks its rows appending label PDFs.        *)
(*                                                                         *)
(* One script run (Streamlit reruns the whole file on every interaction)   *)
(* is one action, except the row loop of "Process and Merge PDFs", which   *)
(* is one action per row so that the progress value and the accumulators   *)
(* can be observed between rows.                                           *)
(*                                                                         *)
(* Numbers read from the sheet are kept in halves (Num(5) is 2.5) so that  *)
(* int() truncation is visible.  A cell is NaN (empty), a number, or text. *)
(*                                                                         *)
(* The script is single-threaded: while the row loop runs no other         *)
(* interaction is served, and the label folder is taken not to change      *)
(* during a run.  An uncaught exception ends the script run where it is    *)
(* raised; `last` records how the latest run ended.                        *)
(***************************************************************************)
EXTENDS Integers, Sequences, FiniteSets, TLC

VARIABLES
    folder_on_disk,       \* environment: does ./mrp_label exist right now
    label_files,          \* environment: stems of the *.pdf files inside it
    folder_cache,         \* st.cache_data entry of check_pdf_folder()
    uploaded_file,        \* the st.file_uploader widget's value
    uploaded_file_name,   \* st.session_state.uploaded_file_name
    df,                   \* st.session_state.df
    processing_complete,  \* st.session_state.processing_complete
    results,              \* st.session_state.results
    results_bytes,        \* history: the file held by the uploader when results were stored
    last,                 \* how the latest script run ended
    pc,                   \* "idle", or "loop" while the row loop runs
    pos,                  \* position of the row iterator (1-based)
    merger,               \* PdfMerger contents: one entry per successful append
    total_pages,
    processed_items,
    missing_pdfs,
    errors,
    processed_details,
    progress              \* value last given to progress_bar.progress

vars == <<folder_on_disk, label_files, folder_cache, uploaded_file,
          uploaded_file_name, df, processing_complete, results, results_bytes,
          last, pc, pos, merger, total_pages, processed_items, missing_pdfs,
          errors, processed_details, progress>>

env_vars == <<folder_on_disk, label_files>>
session_vars == <<uploaded_file_name, df, processing_complete, results, results_bytes>>
loop_vars == <<pc, pos, merger, total_pages, processed_items, missing_pdfs,
               errors, processed_details, progress>>

\* Rows of an uploaded sheet (below the header).
MaxRows == 2

-----------------------------------------------------------------------------
(* Cells and the Python / pandas operations the code applies to them.      *)

NaN == [t |-> "nan", v |-> 0, s |-> ""]
Num(h) == [t |-> "num", v |-> h, s |-> ""]
Txt(s) == [t |-> "str", v |-> 0, s |-> s]

\* pd.isna / pd.notna on a scalar: only an empty cell is NA.
IsNa(c) == c.t = "nan"
NotNa(c) == ~IsNa(c)

\* Truncation toward zero of a number kept in halves.
Trunc(h) == IF h >= 0 THEN h \div 2 ELSE -((-h) \div 2)

\* The texts that int() parses, and their values.
ParsesAsInt(s) == s \in {"0", "1", "2"}
IntOfText(s) == CASE s = "0" -> 0 [] s = "1" -> 1 [] OTHER -> 2

\* int(x): raises on NaN and on unparsable text.
IntRaises(c) == c.t = "nan" \/ (c.t = "str" /\ ~ParsesAsInt(c.s))
IntOf(c) == IF c.t = "num" THEN Trunc(c.v) ELSE IntOfText(c.s)

\* x != 0 : text is never equal to 0.
NotZero(c) == IF c.t = "num" THEN c.v # 0 ELSE TRUE

-----------------------------------------------------------------------------
(* load_excel_data and create_display_name.                                *)
(* A workbook is [has_sheet, columns, has_name, rows]: whether it has the  *)
(* "Item Summary" sheet, which required columns its header row has (after *)
(* lower-casing and stripping), whether a column containing "item name"    *)
(* exists, and the data rows [item, var, qty, name].                       *)

RequiredColumns == <<"Item ID", "Variation ID", "Quantity">>

MissingColumns(wb) == SelectSeq(RequiredColumns, LAMBDA c : c \notin wb.columns)

\* " - " in str(item_name), and str.split(" - ", 1) of the names used here.
HasSeparator(s) == s \in {"Red Capsicum - 250g"}
ParentName(s) == IF s = "Red Capsicum - 250g" THEN "Red Capsicum" ELSE s
VariationName(s) == IF s = "Red Capsicum - 250g" THEN "250g" ELSE ""

\* str(item_name) as the f-string renders it.
NameText(c) == IF c.t = "nan" THEN "nan" ELSE c.s

\* The variable-product test of create_display_name.
IsVariableProduct(r) == NotNa(r.var) /\ NotZero(r.var)

\* create_display_name(row): "raised" when an int() in it raises.
CreateDisplayName(r) ==
    IF IsVariableProduct(r)
    THEN IF NotNa(r.name) /\ HasSeparator(NameText(r.name))
         THEN [raised |-> IntRaises(r.item) \/ IntRaises(r.var),
               form |-> "parent + variation (item + variation)",
               a |-> ParentName(NameText(r.name)),
               b |-> VariationName(NameText(r.name)),
               ids |-> <<IntOf(r.item), IntOf(r.var)>>]
         ELSE [raised |-> IntRaises(r.item) \/ IntRaises(r.var),
               form |-> "name (item + variation)",
               a |-> NameText(r.name), b |-> "",
               ids |-> <<IntOf(r.item), IntOf(r.var)>>]
    ELSE \* the default of row.get is evaluated eagerly, so int(item_id) always runs
         [raised |-> IntRaises(r.item),
          form |-> "name (item)",
          a |-> NameText(r.name), b |-> "",
          ids |-> <<IntOf(r.item)>>]

\* The test of the lambda used when the sheet has no name column.
LabelUsesVariation(r) == NotNa(r.var) /\ NotZero(r.var)

\* f"ID: {...}" of the no-name-column lambda.
IdLabel(r) ==
    LET c == IF LabelUsesVariation(r) THEN r.var ELSE r.item
    IN  [raised |-> IntRaises(c), form |-> "ID: id", a |-> "", b |-> "",
         ids |-> <<IntOf(c)>>]

DisplayNameOf(r, has_name) == IF has_name THEN CreateDisplayName(r) ELSE IdLabel(r)

\* read_excel numbers the data rows 0, 1, ... ; the label stays with the row.
Indexed(rows) ==
    [i \in 1..Len(rows) |->
        [var |-> rows[i].var, name |-> rows[i].name, item |-> rows[i].item,
         idx |-> i - 1, qty |-> rows[i].qty]]

\* dropna(subset=[three required columns], how='all'); the index is not reset.
AllThreeEmpty(r) == IsNa(r.item) /\ IsNa(r.var) /\ IsNa(r.qty)
DropNa(rows) == SelectSeq(rows, LAMBDA r : ~AllThreeEmpty(r))

WithDisplayName(rows, has_name) ==
    [i \in 1..Len(rows) |->
        [var |-> rows[i].var, name |-> rows[i].name, item |-> rows[i].item,
         idx |-> rows[i].idx, qty |-> rows[i].qty,
         display |-> [form |-> DisplayNameOf(rows[i], has_name).form,
                      a |-> DisplayNameOf(rows[i], has_name).a,
                      b |-> DisplayNameOf(rows[i], has_name).b,
                      ids |-> DisplayNameOf(rows[i], has_name).ids]]]

LoadError(msg) == [rows |-> <<>>, msg |-> msg, kind |-> "error"]
LoadRaise == [rows |-> <<>>, msg |-> "", kind |-> "raise"]
LoadOk(rows) == [rows |-> rows, msg |-> "", kind |-> "ok"]

\* load_excel_data(file_bytes, file_name): the set of its possible outcomes.
\* (st.cache_data keys it by the bytes and the name, and a raise is not cached,
\* so the cache does not change what a call returns.)
\* With no row left, df.apply(axis=1) returns a DataFrame, and assigning it to
\* the single column 'Display Name' raises or not depending on the pandas
\* release: both outcomes are kept.
LoadExcelData(wb) ==
    IF ~wb.has_sheet THEN {LoadError("Sheet 'Item Summary' not found")}
    ELSE IF MissingColumns(wb) # <<>> THEN {LoadError("Missing required columns")}
    ELSE LET kept == DropNa(Indexed(wb.rows))
         IN  IF Len(kept) = 0 THEN {LoadRaise, LoadOk(<<>>)}
             ELSE IF \E i \in 1..Len(kept) : DisplayNameOf(kept[i], wb.has_name).raised
                  THEN {LoadRaise}
                  ELSE {LoadOk(WithDisplayName(kept, wb.has_name))}

-----------------------------------------------------------------------------
(* The page: folder check, new-file detection, table display.              *)

NoFile == [name |-> "", present |-> FALSE,
           bytes |-> [columns |-> {}, has_name |-> FALSE, rows |-> <<>>,
                      has_sheet |-> FALSE]]
NoDf == [rows |-> <<>>, loaded |-> FALSE]
NoResults ==
    [total_pages |-> 0, processed_items |-> 0, missing_pdfs |-> <<>>,
     errors |-> <<>>, processed_details |-> <<>>, present |-> FALSE,
     pdf_bytes |-> <<>>, output_filename |-> <<>>]

\* check_pdf_folder() evaluated against the filesystem.
CheckPdfFolder ==
    IF folder_on_disk
    THEN [exists |-> TRUE, count |-> Cardinality(label_files), files |-> label_files]
    ELSE [exists |-> FALSE, count |-> 0, files |-> {}]

\* df['quantity'].sum() followed by int(): numbers and NaN add up; text with
\* anything that is not text is a TypeError; text alone concatenates, and the
\* int() of the concatenation raises unless every piece is digits.
SumQuantityRaises(rows) ==
    LET hasText == \E i \in 1..Len(rows) : rows[i].qty.t = "str"
        allText == \A i \in 1..Len(rows) : rows[i].qty.t = "str"
    IN  hasText /\ (~allText \/ \E i \in 1..Len(rows) : ~ParsesAsInt(rows[i].qty.s))

\* The test of the "Unique IDs" lambda.
MetricUsesVariation(r) == NotNa(r.var) /\ NotZero(r.var)

\* The "Unique IDs" metric: an int() per row; on a table without rows apply()
\* returns a DataFrame, nunique() a Series, and st.metric rejects it.
UniqueIdsRaises(rows) ==
    \/ Len(rows) = 0
    \/ \E i \in 1..Len(rows) :
          IntRaises(IF MetricUsesVariation(rows[i]) THEN rows[i].var ELSE rows[i].item)

\* How the run ends when it renders the loaded table ("View Loaded Data").
DisplayOutcome(rows) ==
    IF SumQuantityRaises(rows) \/ UniqueIdsRaises(rows)
    THEN "display_exception" ELSE "ok"

\* Lines 138-180 for the widget value u: new-file detection, load, display.
ScriptTop(u) ==
    IF u.present /\ uploaded_file_name # u.name
    THEN /\ uploaded_file_name' = u.name
         /\ processing_complete' = FALSE
         /\ \E out \in LoadExcelData(u.bytes) :
               /\ df' = CASE out.kind = "raise" -> df
                          [] out.kind = "error" -> NoDf
                          [] OTHER -> [rows |-> out.rows, loaded |-> TRUE]
               /\ last' = CASE out.kind = "raise" -> "load_exception"
                            [] out.kind = "error" -> "ok"
                            [] OTHER -> DisplayOutcome(out.rows)
    ELSE /\ UNCHANGED <<uploaded_file_name, df, processing_complete>>
         /\ last' = IF u.present /\ df.loaded THEN DisplayOutcome(df.rows) ELSE "ok"

\* What the latest run put on the page.
ShowsTable == uploaded_file.present /\ df.loaded /\ last # "load_exception"
ButtonRendered ==
    uploaded_file.present /\ df.loaded
    /\ last \in {"ok", "folder_stop", "progress_exception"}
ShowsResults == ButtonRendered /\ last = "ok" /\ processing_complete
DownloadOffered == ShowsResults /\ results.total_pages > 0
NoPdfWarning == ShowsResults /\ ~(results.total_pages > 0)

-----------------------------------------------------------------------------
(* The row loop of "Process and Merge PDFs".                               *)

IdleLoop ==
    /\ pc' = "idle" /\ pos' = 1 /\ merger' = <<>> /\ total_pages' = 0
    /\ processed_items' = 0 /\ missing_pdfs' = <<>> /\ errors' = <<>>
    /\ processed_details' = <<>> /\ progress' = [num |-> 0, den |-> 1]

\* pdf_path.exists()
LabelExists(id) == folder_on_disk /\ id \in label_files

\* Mutant of UsesVariation: the test against 0 is left out.
UsesVariation_IgnoresZero(r) == NotNa(r.var)

\* The id test of the loop.
UsesVariation(r) == NotNa(r.var) /\ NotZero(r.var)

\* Mutant of NotPositive: a strict comparison.
NotPositive_Strict(q) == q.v < 0

\* quantity <= 0 on a number.
NotPositive(q) == q.v <= 0

\* Mutant of RecordMissing: an identifier is listed once.
RecordMissing_Dedup(list, id) ==
    IF \E k \in 1..Len(list) : list[k] = id THEN list ELSE Append(list, id)

\* missing_pdfs.append(use_id)
RecordMissing(list, id) == Append(list, id)

Skip == [msg |-> "", outcome |-> "skip", use_id |-> 0, quantity |-> 0, copies |-> 0]

\* The body of the try block for row r; fail_at = k > 0 makes the k-th
\* merger.append raise, 0 lets every append succeed.
RowBody(r, fail_at) ==
    IF IsNa(r.qty) THEN Skip
    ELSE IF r.qty.t = "str"
    THEN [Skip EXCEPT !.outcome = "error", !.msg = "TypeError: '<=' str and int"]
    ELSE IF NotPositive(r.qty) THEN Skip
    ELSE LET quantity == IntOf(r.qty)
             c == IF UsesVariation(r) THEN r.var ELSE r.item
         IN  IF IntRaises(c)
             THEN [Skip EXCEPT !.outcome = "error", !.quantity = quantity,
                               !.msg = "ValueError: int()"]
             ELSE IF ~LabelExists(IntOf(c))
             THEN [msg |-> "", outcome |-> "missing", use_id |-> IntOf(c),
                   quantity |-> quantity, copies |-> 0]
             ELSE IF fail_at \in 1..quantity
             THEN [msg |-> "merger.append raised", outcome |-> "error",
                   use_id |-> IntOf(c), quantity |-> quantity,
                   copies |-> fail_at - 1]
             ELSE [msg |-> "", outcome |-> "processed", use_id |-> IntOf(c),
                   quantity |-> quantity, copies |-> quantity]

\* The appends of row r that may be made to raise.
FailPoints(r) ==
    IF r.qty.t = "num" /\ r.qty.v > 0 THEN 0..IntOf(r.qty) ELSE {0}

Copies(id, n) == [k \in 1..n |-> id]

-----------------------------------------------------------------------------
(* Inputs.                                                                  *)

FileNames == {"a.xlsx", "b.xlsx"}

\* str.replace('.xlsx', '') on the names used here.
Stem(n) == CASE n = "a.xlsx" -> "a" [] n = "b.xlsx" -> "b" [] OTHER -> n

OutputFilename(n) == <<"mrp_labels_", Stem(n), ".pdf">>

\* Contents of the label folder: label 2 is only ever there beside label 1.
LabelStores == {{}, {1}, {1, 2}}

ItemCells == {NaN, Num(2)}
VarCells == {NaN, Num(0), Num(4)}
QtyCells == {NaN, Txt("2"), Num(-2), Num(0), Num(5)}
NameCells == {Txt("Red Capsicum - 250g"), Txt("Tomato")}

\* Rows of a sheet: with a name column, a variation row carries either kind of
\* name and a row without variation a plain one.
SheetRows(has_name) ==
    IF has_name
    THEN {r \in [var : VarCells, name : NameCells, item : ItemCells, qty : QtyCells] :
             r.var = Num(4) \/ r.name = Txt("Tomato")}
    ELSE [var : VarCells, name : {NaN}, item : ItemCells, qty : QtyCells]

Sheets(rowset, n) == UNION {[1..k -> rowset] : k \in 0..n}

\* Workbooks with the sheet and the three required columns.
Workbooks ==
    UNION {[columns : {{"Item ID", "Variation ID", "Quantity"}}, has_name : {hn},
            rows : Sheets(SheetRows(hn), MaxRows), has_sheet : {TRUE}] : hn \in BOOLEAN}

\* A few workbooks for the session-level behaviour: one without the sheet, one
\* without a required column, and sheets of one row.
SmallRows ==
    [var : {Num(0)}, name : {NaN}, item : {NaN, Num(2)}, qty : {Num(2), Num(4)}]
SmallBooks ==
    {[columns |-> {}, has_name |-> FALSE, rows |-> <<>>, has_sheet |-> FALSE],
     [columns |-> {"Item ID", "Quantity"}, has_name |-> FALSE, rows |-> <<>>,
      has_sheet |-> TRUE]}
    \cup [columns : {{"Item ID", "Variation ID", "Quantity"}}, has_name : {FALSE},
          rows : [1..1 -> SmallRows], has_sheet : {TRUE}]

-----------------------------------------------------------------------------
(* The state machine.                                                       *)

\* The session after the first script run, before any file is chosen.
Init ==
    /\ folder_on_disk \in BOOLEAN
    /\ label_files \in LabelStores
    /\ folder_cache = CheckPdfFolder
    /\ uploaded_file = NoFile
    /\ uploaded_file_name = "None"
    /\ df = NoDf
    /\ processing_complete = FALSE
    /\ results = NoResults
    /\ results_bytes = NoFile.bytes
    /\ last = "ok"
    /\ pc = "idle" /\ pos = 1 /\ merger = <<>> /\ total_pages = 0
    /\ processed_items = 0 /\ missing_pdfs = <<>> /\ errors = <<>>
    /\ processed_details = <<>> /\ progress = [num |-> 0, den |-> 1]

\* The operator puts the workbook wb, named n, into the uploader; the script
\* reruns with that file as the widget value.
UploadFile(n, wb) ==
    LET f == [name |-> n, present |-> TRUE, bytes |-> wb]
    IN  /\ pc = "idle"
        /\ f # uploaded_file
        /\ uploaded_file' = f
        /\ ScriptTop(f)
        /\ UNCHANGED <<env_vars, folder_cache, results, results_bytes, loop_vars>>

Upload ==
    \E n \in FileNames, wb \in SmallBooks : UploadFile(n, wb)

\* The first upload of a session, from the larger set of workbooks.
FirstUpload ==
    /\ uploaded_file_name = "None"
    /\ \E wb \in Workbooks : UploadFile("a.xlsx", wb)

\* The operator removes the file from the uploader; the script reruns.
RemoveFile ==
    /\ pc = "idle"
    /\ uploaded_file.present
    /\ uploaded_file' = NoFile
    /\ ScriptTop(NoFile)
    /\ UNCHANGED <<env_vars, folder_cache, results, results_bytes, loop_vars>>

\* Any other interaction that reruns the script.
PageRerun ==
    /\ pc = "idle"
    /\ ScriptTop(uploaded_file)
    /\ UNCHANGED <<env_vars, folder_cache, uploaded_file, results, results_bytes,
                   loop_vars>>

\* "Refresh PDF Count": clear the cache, rerun, and the rerun fills it again.
RefreshPdfCount ==
    /\ pc = "idle"
    /\ folder_cache' = CheckPdfFolder
    /\ ScriptTop(uploaded_file)
    /\ UNCHANGED <<env_vars, uploaded_file, results, results_bytes, loop_vars>>

\* The environment creates or removes ./mrp_label between script runs.
CreateFolder ==
    /\ pc = "idle" /\ ~folder_on_disk
    /\ folder_on_disk' = TRUE
    /\ UNCHANGED <<label_files, folder_cache, uploaded_file, session_vars, last,
                   loop_vars>>

RemoveFolder ==
    /\ pc = "idle" /\ folder_on_disk
    /\ folder_on_disk' = FALSE
    /\ UNCHANGED <<label_files, folder_cache, uploaded_file, session_vars, last,
                   loop_vars>>

\* "Process and Merge PDFs" pressed: the folder test on the cached value, then
\* either st.stop() or the accumulators are set up and the loop begins.
PressProcess ==
    /\ pc = "idle"
    /\ ButtonRendered
    /\ IF ~folder_cache.exists
       THEN /\ last' = "folder_stop"
            /\ UNCHANGED loop_vars
       ELSE /\ last' = "running"
            /\ pc' = "loop" /\ pos' = 1 /\ merger' = <<>> /\ total_pages' = 0
            /\ processed_items' = 0 /\ missing_pdfs' = <<>> /\ errors' = <<>>
            /\ processed_details' = <<>> /\ progress' = [num |-> 0, den |-> 1]
    /\ UNCHANGED <<env_vars, folder_cache, uploaded_file, session_vars>>

\* One iteration of the row loop: the try block, then, unless the row left
\* through `continue`, the progress update, which raises above 1.0.
ProcessRow ==
    /\ pc = "loop"
    /\ pos <= Len(df.rows)
    /\ \E fail_at \in FailPoints(df.rows[pos]) :
          LET r == df.rows[pos]
              b == RowBody(r, fail_at)
              continued == b.outcome \in {"skip", "missing"}
              shown == [num |-> r.idx + 1, den |-> Len(df.rows)]
          IN  IF ~continued /\ shown.num > shown.den
              THEN /\ IdleLoop
                   /\ last' = "progress_exception"
              ELSE /\ pc' = "loop"
                   /\ pos' = pos + 1
                   /\ merger' = merger \o Copies(b.use_id, b.copies)
                   /\ total_pages' = total_pages + b.copies
                   /\ processed_items' =
                          processed_items + (IF b.outcome = "processed" THEN 1 ELSE 0)
                   /\ missing_pdfs' =
                          IF b.outcome = "missing"
                          THEN RecordMissing(missing_pdfs, b.use_id) ELSE missing_pdfs
                   /\ errors' =
                          IF b.outcome = "error"
                          THEN Append(errors, [msg |-> b.msg, row |-> r.idx + 2])
                          ELSE errors
                   /\ processed_details' =
                          IF b.outcome = "processed"
                          THEN Append(processed_details,
                                      [display |-> r.display,
                                       quantity |-> b.quantity,
                                       id_used |-> b.use_id])
                          ELSE processed_details
                   /\ progress' = IF continued THEN progress ELSE shown
                   /\ last' = last
    /\ UNCHANGED <<env_vars, folder_cache, uploaded_file, session_vars>>

\* After the last row: write the document, store the results, st.rerun().
FinishRun ==
    /\ pc = "loop"
    /\ pos = Len(df.rows) + 1
    /\ processing_complete' = TRUE
    /\ results' =
          [total_pages |-> total_pages, processed_items |-> processed_items,
           missing_pdfs |-> missing_pdfs, errors |-> errors,
           processed_details |-> processed_details, present |-> TRUE,
           pdf_bytes |-> merger,
           output_filename |-> OutputFilename(uploaded_file_name)]
    /\ results_bytes' = uploaded_file.bytes
    /\ IdleLoop
    /\ last' = DisplayOutcome(df.rows)
    /\ UNCHANGED <<env_vars, folder_cache, uploaded_file, uploaded_file_name, df>>

Next ==
    \/ Upload
    \/ RemoveFile
    \/ PageRerun
    \/ RefreshPdfCount
    \/ CreateFolder
    \/ RemoveFolder
    \/ PressProcess
    \/ ProcessRow
    \/ FinishRun

Spec == Init /\ [][Next]_vars

\* One session: a first upload, then assembly runs on the loaded table.
NextRun ==
    \/ FirstUpload
    \/ PressProcess
    \/ ProcessRow
    \/ FinishRun

\* The label folder is there when the session starts.
InitRun == Init /\ folder_on_disk

SpecRun == InitRun /\ [][NextRun]_vars

-----------------------------------------------------------------------------
(* Vocabulary of the claims, stated on the cells of a row.                 *)

\* The effective identifier rule: the variation id when present and non-zero.
VariationPresentNonZero(r) == r.var.t # "nan" /\ ~(r.var.t = "num" /\ r.var.v = 0)
EffectiveCell(r) == IF VariationPresentNonZero(r) THEN r.var ELSE r.item
\* Its coercion to an integer succeeds, and the integer it gives.
ValidIdentifier(r) == ~IntRaises(EffectiveCell(r))
EffectiveId(r) == IntOf(EffectiveCell(r))

QuantityMissing(r) == r.qty.t = "nan"
QuantityText(r) == r.qty.t = "str"
QuantityNotPositive(r) == r.qty.t = "num" /\ r.qty.v <= 0
QuantityPositive(r) == r.qty.t = "num" /\ r.qty.v > 0

\* A step of the loop that visits row df.rows[pos] and goes on to the next row.
RowStep == pc = "loop" /\ pc' = "loop" /\ pos' = pos + 1

AddsNoPages == merger' = merger /\ total_pages' = total_pages
AddsNoManifestEntry ==
    processed_details' = processed_details /\ processed_items' = processed_items

\* C1 (as stated): a row whose quantity is missing, non-numeric or <= 0 adds
\* no pages, no manifest entry, nothing to missing_pdfs and nothing to errors.
C1_Original ==
    [][(RowStep /\ (QuantityMissing(df.rows[pos]) \/ QuantityText(df.rows[pos])
                    \/ QuantityNotPositive(df.rows[pos])))
        => (AddsNoPages /\ AddsNoManifestEntry
            /\ missing_pdfs' = missing_pdfs /\ errors' = errors)]_vars

\* A step of the loop at row df.rows[pos] that ends the run in the progress
\* update, storing nothing.
RowAbort ==
    pc = "loop" /\ pc' = "idle" /\ last' = "progress_exception" /\ results' = results

\* C1 (amended): a row whose quantity is missing or a number <= 0 is skipped
\* silently: the loop goes on, and the row adds no pages, no manifest entry,
\* nothing to missing_pdfs and nothing to errors.  A row whose quantity is
\* text is not silent: it adds no pages, no manifest entry and nothing to
\* missing_pdfs, but exactly one entry, for its own sheet row, to errors, or
\* else its progress update ends the run.
C1_Amended ==
    [][(pc = "loop" /\ pos <= Len(df.rows)) =>
        /\ (QuantityMissing(df.rows[pos]) \/ QuantityNotPositive(df.rows[pos]))
             => (RowStep /\ AddsNoPages /\ AddsNoManifestEntry
                 /\ missing_pdfs' = missing_pdfs /\ errors' = errors)
        /\ QuantityText(df.rows[pos])
             => \/ RowAbort
                \/ /\ RowStep /\ AddsNoPages /\ AddsNoManifestEntry
                   /\ missing_pdfs' = missing_pdfs
                   /\ Len(errors') = Len(errors) + 1
                   /\ SubSeq(errors', 1, Len(errors)) = errors
                   /\ errors'[Len(errors')].row = df.rows[pos].idx + 2]_vars

\* C1 witness: the loop has passed a row with quantity 0 and a row with a
\* negative quantity, both with an existing label file, and nothing was added.
C1_Witness ==
    /\ pc = "loop" /\ pos = 3
    /\ df.rows[1].qty = Num(0) /\ df.rows[2].qty = Num(-2)
    /\ \A i \in 1..2 : ValidIdentifier(df.rows[i]) /\ LabelExists(EffectiveId(df.rows[i]))
    /\ merger = <<>> /\ processed_details = <<>> /\ missing_pdfs = <<>> /\ errors = <<>>

RECURSIVE SumQuantities(_)
SumQuantities(details) ==
    IF details = <<>> THEN 0
    ELSE details[1].quantity + SumQuantities(Tail(details))

\* A row with a valid positive quantity whose label file exists.
ProcessableRow(r) ==
    QuantityPositive(r) /\ ValidIdentifier(r) /\ LabelExists(EffectiveId(r))

\* C2: when a run has finished, total_pages is the sum of the truncated
\* quantities of the rows in processed_details, and processed_items is the
\* number of rows with an existing label file and a valid positive quantity,
\* also when an append failed part-way through a row.
C2_Claim ==
    results.present =>
        /\ results.total_pages = SumQuantities(results.processed_details)
        /\ results.processed_items =
               Cardinality({i \in 1..Len(df.rows) : ProcessableRow(df.rows[i])})

\* The identifier a display name shows as the effective one.
VariationForms == {"parent + variation (item + variation)", "name (item + variation)"}
DisplayAgrees(r) ==
    IF r.display.form \in VariationForms
    THEN VariationPresentNonZero(r)
         /\ r.display.ids = <<IntOf(r.item), EffectiveId(r)>>
    ELSE IF r.display.form = "name (item)"
    THEN ~VariationPresentNonZero(r) /\ r.display.ids = <<EffectiveId(r)>>
    ELSE r.display.form = "ID: id" /\ r.display.ids = <<EffectiveId(r)>>

\* C3: for every row the loop visits, the identifier it looks up (recorded in
\* missing_pdfs or in processed_details) is the variation id when that is
\* present and non-zero and the item id otherwise, and the row's display name
\* (either form of create_display_name, or the "ID:" label) took the same
\* branch and shows the same identifier.
C3_Theorem ==
    [][RowStep =>
        /\ DisplayAgrees(df.rows[pos])
        /\ missing_pdfs' # missing_pdfs
             => missing_pdfs'[Len(missing_pdfs')] = EffectiveId(df.rows[pos])
        /\ processed_details' # processed_details
             => /\ processed_details'[Len(processed_details')].id_used
                      = EffectiveId(df.rows[pos])
                /\ processed_details'[Len(processed_details')].display
                      = df.rows[pos].display]_vars

\* C3 witness: the loop has processed a row without variation under its item
\* id and a variation row under its variation id.
C3_Witness ==
    /\ pc = "loop" /\ Len(processed_details) = 2
    /\ processed_details[1].display.form = "name (item)"
    /\ processed_details[1].id_used = 1
    /\ processed_details[2].display.form = "parent + variation (item + variation)"
    /\ processed_details[2].display.ids = <<1, 2>>
    /\ processed_details[2].id_used = 2

\* C4: once the loop has started it is left only after the last row, and
\* leaving it stores a results object and sets processing_complete.
C4_Claim ==
    [][(pc = "loop" /\ pc' # "loop")
        => (pos = Len(df.rows) + 1 /\ results'.present /\ processing_complete')]_vars

\* C5: pressing the button starts the row loop exactly when the label folder
\* exists at that moment, and stops with folder-not-found, storing nothing,
\* exactly when it does not.
C5_Claim ==
    [][PressProcess
        => /\ (pc' = "loop") <=> folder_on_disk
           /\ (last' = "folder_stop" /\ results' = results) <=> ~folder_on_disk]_vars

\* The rows of a sheet in which at least one of the three fields is not empty.
NonEmptyRows(rows) ==
    SelectSeq(rows, LAMBDA r : r.item.t # "nan" \/ r.var.t # "nan" \/ r.qty.t # "nan")
SheetCells(rows) ==
    [i \in 1..Len(rows) |->
        [var |-> rows[i].var, name |-> rows[i].name, item |-> rows[i].item,
         qty |-> rows[i].qty]]

\* C6: a sheet with the three required columns and some non-empty row loads
\* without failing, and the table holds exactly its non-empty rows in order.
C6_Claim ==
    (uploaded_file.present /\ NonEmptyRows(uploaded_file.bytes.rows) # <<>>)
        => /\ last # "load_exception"
           /\ df.loaded
           /\ SheetCells(df.rows) = NonEmptyRows(uploaded_file.bytes.rows)

\* C7: results are offered for download iff total_pages > 0, and when no row
\* was processed (every row skipped, missing or in error) the result has
\* processed_items = 0 and total_pages = 0 and the warning replaces the button.
C7_Claim ==
    /\ DownloadOffered <=> (ShowsResults /\ results.total_pages > 0)
    /\ (ShowsResults /\ results.processed_details = <<>>)
          => /\ results.processed_items = 0 /\ results.total_pages = 0
             /\ NoPdfWarning /\ ~DownloadOffered

\* A row with a positive quantity, a valid identifier and no label file.
MissingRow(r) ==
    QuantityPositive(r) /\ ValidIdentifier(r) /\ ~LabelExists(EffectiveId(r))

RECURSIVE ExpectedMissing(_)
ExpectedMissing(rows) ==
    IF rows = <<>> THEN <<>>
    ELSE (IF MissingRow(rows[1]) THEN <<EffectiveId(rows[1])>> ELSE <<>>)
         \o ExpectedMissing(Tail(rows))

NoErrorForMissingRow(errs) ==
    \A k \in 1..Len(errs) : \A i \in 1..Len(df.rows) :
        df.rows[i].idx + 2 = errs[k].row => ~MissingRow(df.rows[i])

\* C8: missing_pdfs is, in row order and without deduplication, the effective
\* identifiers of the rows with a positive quantity, a valid identifier and no
\* label file, during the loop and in the stored results; no error entry
\* belongs to such a row.
C8_Theorem ==
    /\ pc = "loop"
          => /\ missing_pdfs = ExpectedMissing(SubSeq(df.rows, 1, pos - 1))
             /\ NoErrorForMissingRow(errors)
    /\ results.present
          => /\ results.missing_pdfs = ExpectedMissing(df.rows)
             /\ NoErrorForMissingRow(results.errors)

\* C8 witness: a finished run whose two rows referenced the same missing label.
C8_Witness ==
    /\ results.present /\ Len(df.rows) = 2
    /\ results.missing_pdfs = <<2, 2>>
    /\ results.errors = <<>>

\* C9: during a run the progress value is rowsSeen / totalRows, within 0..1
\* (so it is updated for every row visited and is 1 after the last row).
C9_Claim ==
    pc = "loop"
       => /\ progress.num * Len(df.rows) = (pos - 1) * progress.den
          /\ progress.num <= progress.den

\* C10: a displayed table is the load of the file now in the uploader, and
\* displayed results were computed for that file.
C10_Claim ==
    /\ ShowsTable => LoadOk(df.rows) \in LoadExcelData(uploaded_file.bytes)
    /\ ShowsResults => results_bytes = uploaded_file.bytes

====
